---- MODULE Spec2Model ----
(***************************************************************************)
(* Model of the two scripts of the repository:                             *)
(*   depletion/generate_endf71_chain_casl.py  (depletion-chain assembly)   *)
(*   generate_cendl.py                        (CENDL 3.1 -> HDF5 library)  *)
(*                                                                         *)
(* Nuclide names are triples <<symbol, mass number, metastable state>>,    *)
(* e.g. <<"U", 235, 0>> for the GND name "U235".  Branching ratios and     *)
(* reaction branching fractions are fixed-point numbers in units of        *)
(* 1/One; Q-values, yields and weights are integers.                       *)
(***************************************************************************)
EXTENDS Integers, Sequences, FiniteSets, TLC

VARIABLES
    \* ---- generate_endf71_chain_casl.py ----
    CASL_CHAIN,            \* casl_chain.CASL_CHAIN: name -> <<flag, _, ifpy, special>>
    UNMODIFIED_DECAY_BR,   \* casl_chain.UNMODIFIED_DECAY_BR
    neutron_files,         \* parsed evaluations found under neutrons/
    decay_files,           \* parsed decay objects found under decay/
    fpy_files,             \* parsed fission-product-yield objects under nfy/
    reactions,             \* dict: name -> (MT -> Q value)
    decay_data,            \* dict: name -> decay object
    fpy_data,              \* dict: name -> fission product yields
    chain,                 \* openmc.deplete.Chain: nuclides, nuclide_dict, reactions
    missing_daughter,
    missing_rx_product,
    missing_fpy,
    printed,               \* warnings written to stdout, in order
    order,                 \* sorted(decay_data, key=openmc.data.zam)
    idx,                   \* enumerate() index of the loop, 0-based
    pc,                    \* position of main()
    error,                 \* the exception that terminated main(), if any
    \* ---- generate_cendl.py ----
    args,                  \* parsed command line
    archive,               \* CENDL-31.zip in the working directory (<<>> if absent)
    endf_dir,              \* files of cendl-3.1-endf: basename -> content
    todo,                  \* sorted(neutron_files), the files not yet converted
    destination,           \* destination directory: <<>> if absent, else <<h5 files>>
    library,               \* openmc.data.DataLibrary of this run
    manifests,             \* cross_sections.xml written by the runs so far
    first_inputs,          \* basenames the first run's glob matched
    cpc,                   \* position of the script
    cerror                 \* the exception that terminated a run, if any

chainVars == <<CASL_CHAIN, UNMODIFIED_DECAY_BR, neutron_files, decay_files,
               fpy_files, reactions, decay_data, fpy_data, chain,
               missing_daughter, missing_rx_product, missing_fpy, printed,
               order, idx, pc, error>>

cendlVars == <<args, archive, endf_dir, todo, destination,
               library, manifests, first_inputs, cpc, cerror>>

vars == <<chainVars, cendlVars>>

----------------------------------------------------------------------------
(* Generic helpers                                                         *)

None == <<>>

Some(v) == <<v>>

Range(s) == {s[k] : k \in 1..Len(s)}

Min(S) == CHOOSE a \in S : \A b \in S : a <= b

RECURSIVE SumSeq(_)
SumSeq(s) == IF s = <<>> THEN 0 ELSE s[1] + SumSeq(Tail(s))

Front(s) == SubSeq(s, 1, Len(s) - 1)

\* All sequences over S of length at most n.
SeqsUpTo(S, n) == UNION {[1..k -> S] : k \in 0..n}

----------------------------------------------------------------------------
(* Nuclide names                                                           *)

\* the literal 1.0 in fixed-point units
One == 100

\* openmc.data.ATOMIC_SYMBOL, restricted to the elements the inputs reach
ATOMIC_SYMBOL ==
    (51 :> "Sb") @@ (52 :> "Te") @@ (53 :> "I") @@ (54 :> "Xe") @@
    (90 :> "Th") @@ (91 :> "Pa") @@ (92 :> "U")

\* openmc.data.ATOMIC_NUMBER, the inverse table
ATOMIC_NUMBER == [s \in {ATOMIC_SYMBOL[z] : z \in DOMAIN ATOMIC_SYMBOL} |->
                    CHOOSE z \in DOMAIN ATOMIC_SYMBOL : ATOMIC_SYMBOL[z] = s]

\* openmc.data.zam: name -> (Z, A, m)
zam(name) == <<ATOMIC_NUMBER[name[1]], name[2], name[3]>>

\* tuple comparison of two zam keys
ZamLess(a, b) ==
    \/ a[1] < b[1]
    \/ a[1] = b[1] /\ a[2] < b[2]
    \/ a[1] = b[1] /\ a[2] = b[2] /\ a[3] < b[3]

\* sorted(names, key=openmc.data.zam)
RECURSIVE SortedByZam(_)
SortedByZam(S) ==
    IF S = {} THEN <<>>
    ELSE LET first == CHOOSE n \in S :
                        \A o \in S \ {n} : ZamLess(zam(n), zam(o))
         IN <<first>> \o SortedByZam(S \ {first})

I135 == <<"I", 135, 0>>
Xe135 == <<"Xe", 135, 0>>
Te135 == <<"Te", 135, 0>>
Th231 == <<"Th", 231, 0>>
U234 == <<"U", 234, 0>>
U235 == <<"U", 235, 0>>
U236 == <<"U", 236, 0>>

\* openmc.deplete.chain._REACTIONS: (name, MT codes, (delta A, delta Z))
_REACTIONS == <<
    <<"(n,2n)",    (875..891) \cup {16},  <<-1, 0>> >>,
    <<"(n,3n)",    {17},                  <<-2, 0>> >>,
    <<"(n,4n)",    {37},                  <<-3, 0>> >>,
    <<"(n,gamma)", {102},                 <<1, 0>> >>,
    <<"(n,p)",     (600..649) \cup {103}, <<0, -1>> >>,
    <<"(n,a)",     (800..849) \cup {107}, <<-3, -2>> >> >>

\* the MT codes that indicate fission
FISSION_MTS == <<18, 19, 20, 21, 38>>

----------------------------------------------------------------------------
(* generate_endf71_chain_casl.py: records                                  *)

\* CASL_CHAIN[name][k] with the 0-based index of the source
Casl(name, k) == CASL_CHAIN[name][k + 1]

\* the string 'Nothing' stored as the target of a reaction without product
NOTHING == <<"Nothing">>

\* the integer 0 stored as the target of the fission reaction
ZERO == <<"int", 0>>

\* openmc.deplete.nuclide.Nuclide()
Nuclide(name) ==
    [name |-> name, half_life |-> None, decay_energy |-> 0,
     decay_modes |-> <<>>, reactions |-> <<>>, yield_data |-> None]

DecayTuple(type, target, br) ==
    [type |-> type, target |-> target, branching_ratio |-> br]

ReactionTuple(type, target, Q, br) ==
    [type |-> type, target |-> target, Q |-> Q, branching_ratio |-> br]

----------------------------------------------------------------------------
(* Reading the three sub-libraries (lines 55-90)                            *)

\* the object of a set of parsed files that carries the given name
FileOf(files, name) == CHOOSE f \in files : f.name = name

\* Q values of the MF=3 sections of one evaluation
QTable(evaluation) ==
    LET mf3 == {r \in evaluation.reaction_list : r.mf = 3}
    IN [mt \in {r.mt : r \in mf3} |->
          (CHOOSE r \in mf3 : r.mt = mt).q]

\* names of a sub-library that the allow-list keeps
Kept(files) == {f.name : f \in files} \cap DOMAIN CASL_CHAIN

ReadReactions(files) ==
    [n \in Kept(files) |-> QTable(FileOf(files, n))]

ReadObjects(files) ==
    [n \in Kept(files) |-> FileOf(files, n)]

\* 'WARNING: ... has no decay data!' for every allow-list name without data
NoDecayWarnings(data) ==
    LET names == SortedByZam(DOMAIN CASL_CHAIN \ DOMAIN data)
    IN [k \in 1..Len(names) |-> <<"has no decay data", names[k]>>]

ReadLibraries ==
    /\ pc = "read"
    /\ reactions' = ReadReactions(neutron_files)
    /\ decay_data' = ReadObjects(decay_files)
    /\ fpy_data' = ReadObjects(fpy_files)
    /\ printed' = printed \o NoDecayWarnings(decay_data')
    /\ order' = SortedByZam(DOMAIN decay_data')
    /\ idx' = 0
    /\ pc' = "decay"
    /\ UNCHANGED <<CASL_CHAIN, UNMODIFIED_DECAY_BR, neutron_files, decay_files,
                   fpy_files, chain, missing_daughter, missing_rx_product,
                   missing_fpy, error>>
    /\ UNCHANGED cendlVars

----------------------------------------------------------------------------
(* Decay modes of one nuclide (lines 98-130)                                *)

\* the nuclide the loop is working on
parent == order[idx + 1]

\* ','.join(mode.modes)
RECURSIVE Join(_)
Join(strs) ==
    IF strs = <<>> THEN ""
    ELSE IF Len(strs) = 1 THEN strs[1]
    ELSE strs[1] \o "," \o Join(Tail(strs))

\* line 106: are half-life, energy and decay modes populated?
Decays(name, data) ==
    /\ ~Casl(name, 0)
    /\ ~data.stable
    /\ data.half_life # 0

\* variant of DaughterKnown that never reports a daughter as missing
DaughterAlwaysKnown(daughter, data) == TRUE

\* line 114: is the daughter of a decay mode recorded or reported missing?
DaughterKnown(daughter, data) == daughter \in DOMAIN data

\* lines 112-122: the loop over data.modes
RECURSIVE RecordModes(_, _, _)
RecordModes(name, modes, data) ==
    IF modes = <<>> THEN [decay_modes |-> <<>>, missing |-> <<>>]
    ELSE LET mode == Head(modes)
             rest == RecordModes(name, Tail(modes), data)
         IN IF DaughterKnown(mode.daughter, data)
            THEN [decay_modes |->
                     <<DecayTuple(Join(mode.modes), mode.daughter,
                                  mode.branching_ratio)>> \o rest.decay_modes,
                  missing |-> rest.missing]
            ELSE [decay_modes |-> rest.decay_modes,
                  missing |-> <<<<name, mode>>>> \o rest.missing]

\* sum(m.branching_ratio for m in decay_modes)
SumBr(decay_modes) ==
    SumSeq([k \in 1..Len(decay_modes) |-> decay_modes[k].branching_ratio])

\* variant of Renormalize that subtracts the sum of all modes, the popped
\* one included
RenormalizeAll(name, decay_modes, unmodified) ==
    IF SumBr(decay_modes) # One /\ decay_modes # <<>> /\ name \notin unmodified
    THEN LET last == decay_modes[Len(decay_modes)]
         IN Append(Front(decay_modes),
                   DecayTuple(last.type, last.target, One - SumBr(decay_modes)))
    ELSE decay_modes

\* variant of Renormalize that adjusts the first mode instead of the last
RenormalizeFirst(name, decay_modes, unmodified) ==
    IF SumBr(decay_modes) # One /\ decay_modes # <<>> /\ name \notin unmodified
    THEN LET first == decay_modes[1]
         IN <<DecayTuple(first.type, first.target,
                         One - SumBr(Tail(decay_modes)))>> \o Tail(decay_modes)
    ELSE decay_modes

\* lines 126-130: make the branching ratios sum to unity
Renormalize(name, decay_modes, unmodified) ==
    IF SumBr(decay_modes) # One /\ decay_modes # <<>> /\ name \notin unmodified
    THEN LET last == decay_modes[Len(decay_modes)]
             kept == Front(decay_modes)
         IN Append(kept, DecayTuple(last.type, last.target, One - SumBr(kept)))
    ELSE decay_modes

AssembleDecay ==
    /\ pc = "decay"
    /\ idx < Len(order)
    /\ LET data == decay_data[parent]
           new == Nuclide(parent)
           rec == RecordModes(parent, data.modes, decay_data)
           nuclide ==
               IF Decays(parent, data)
               THEN [new EXCEPT
                       !.half_life = Some(data.half_life),
                       !.decay_energy = SumSeq(data.average_energies),
                       !.decay_modes = Renormalize(parent, rec.decay_modes,
                                                   UNMODIFIED_DECAY_BR)]
               ELSE new
       IN /\ chain' = [chain EXCEPT
                         !.nuclides = Append(chain.nuclides, nuclide),
                         !.nuclide_dict = (parent :> idx) @@ chain.nuclide_dict]
          /\ missing_daughter' =
               IF Decays(parent, data)
               THEN missing_daughter \o rec.missing
               ELSE missing_daughter
    /\ pc' = "reactions"
    /\ UNCHANGED <<CASL_CHAIN, UNMODIFIED_DECAY_BR, neutron_files, decay_files,
                   fpy_files, reactions, decay_data, fpy_data,
                   missing_rx_product, missing_fpy, printed, order, idx, error>>
    /\ UNCHANGED cendlVars

----------------------------------------------------------------------------
(* Transmutation reactions of one nuclide (lines 134-160)                   *)

\* line 137: mts & reactions_available
RxAvailable(mts, available) == mts \cap available # {}

\* lines 138-141: name of the product of a reaction
RxDaughter(data, changes) ==
    LET A == data.mass_number + changes[1]
        Z == data.atomic_number + changes[2]
    IN <<ATOMIC_SYMBOL[Z], A, 0>>

\* lines 143-144: chain.reactions holds each reaction name once
AddReaction(names, name) ==
    IF name \in Range(names) THEN names ELSE Append(names, name)

\* variant of RxTarget that keeps the computed daughter without the check
RxTargetUnchecked(daughter, data) == daughter

\* lines 146-148: the product recorded for a reaction
RxTarget(daughter, data) ==
    IF daughter \notin DOMAIN data THEN NOTHING ELSE daughter

\* lines 146-147: the warning entries a reaction adds
RxMissing(name, rx, daughter, data) ==
    IF daughter \notin DOMAIN data THEN << <<name, rx, daughter>> >> ELSE <<>>

\* variant of QValue that walks the MT codes in descending order
RECURSIVE QValueDescending(_, _)
QValueDescending(mts, table) ==
    IF mts = {} THEN 0
    ELSE LET mt == CHOOSE a \in mts : \A b \in mts : a >= b
         IN IF mt \in DOMAIN table THEN table[mt]
            ELSE QValueDescending(mts \ {mt}, table)

\* lines 152-157: for mt in sorted(mts): ... break / else: q_value = 0.0
RECURSIVE QValue(_, _)
QValue(mts, table) ==
    IF mts = {} THEN 0
    ELSE LET mt == Min(mts)
         IN IF mt \in DOMAIN table THEN table[mt]
            ELSE QValue(mts \ {mt}, table)

\* lines 136-160: the loop over _REACTIONS, from registry entry k on
RECURSIVE Transmute(_, _, _, _, _)
Transmute(k, name, data, table, acc) ==
    IF k > Len(_REACTIONS) THEN acc
    ELSE LET rx == _REACTIONS[k][1]
             mts == _REACTIONS[k][2]
             daughter == RxDaughter(data, _REACTIONS[k][3])
         IN IF RxAvailable(mts, DOMAIN table)
            THEN Transmute(k + 1, name, data, table,
                   [reactions |-> Append(acc.reactions,
                        ReactionTuple(rx, RxTarget(daughter, decay_data),
                                      QValue(mts, table), One)),
                    names |-> AddReaction(acc.names, rx),
                    missing |-> acc.missing \o
                        RxMissing(name, rx, daughter, decay_data)])
            ELSE Transmute(k + 1, name, data, table, acc)

AssembleReactions ==
    /\ pc = "reactions"
    /\ LET nuclide == chain.nuclides[idx + 1]
           out == IF parent \in DOMAIN reactions
                  THEN Transmute(1, parent, decay_data[parent],
                                 reactions[parent],
                                 [reactions |-> nuclide.reactions,
                                  names |-> chain.reactions,
                                  missing |-> <<>>])
                  ELSE [reactions |-> nuclide.reactions,
                        names |-> chain.reactions, missing |-> <<>>]
       IN /\ chain' = [chain EXCEPT
                         !.nuclides[idx + 1].reactions = out.reactions,
                         !.reactions = out.names]
          /\ missing_rx_product' = missing_rx_product \o out.missing
    /\ pc' = "fission"
    /\ UNCHANGED <<CASL_CHAIN, UNMODIFIED_DECAY_BR, neutron_files, decay_files,
                   fpy_files, reactions, decay_data, fpy_data,
                   missing_daughter, missing_fpy, printed, order, idx, error>>
    /\ UNCHANGED cendlVars

----------------------------------------------------------------------------
(* Fission reaction of one nuclide (lines 162-172)                          *)

\* variant of FissionIndicated without the test of the MT codes
FissionAlwaysIndicated(available) == TRUE

\* line 163: any(mt in reactions_available for mt in [18, 19, 20, 21, 38])
FissionIndicated(available) ==
    \E k \in 1..Len(FISSION_MTS) : FISSION_MTS[k] \in available

\* variant of FissionQMT that takes the last fission MT code present
FissionQMTLast(table) ==
    IF \E k \in 1..Len(FISSION_MTS) : FISSION_MTS[k] \in DOMAIN table
    THEN FISSION_MTS[CHOOSE k \in 1..Len(FISSION_MTS) :
            /\ FISSION_MTS[k] \in DOMAIN table
            /\ \A j \in (k + 1)..Len(FISSION_MTS) :
                  FISSION_MTS[j] \notin DOMAIN table]
    ELSE 18

\* line 165: the MT code whose Q value the fission reaction takes
FissionQMT(table) == 18

AssembleFission ==
    /\ pc = "fission"
    /\ IF parent \in DOMAIN reactions /\ FissionIndicated(DOMAIN reactions[parent])
       THEN IF parent \in DOMAIN fpy_data
            THEN IF FissionQMT(reactions[parent]) \in DOMAIN reactions[parent]
                 THEN /\ chain' = [chain EXCEPT
                            !.nuclides[idx + 1].reactions = Append(@,
                                ReactionTuple("fission", ZERO,
                                    reactions[parent][FissionQMT(reactions[parent])],
                                    One)),
                            !.reactions = AddReaction(@, "fission")]
                      /\ pc' = "yields"
                      /\ UNCHANGED <<missing_fpy, error>>
                 ELSE \* reactions[parent][18] raises KeyError
                      /\ pc' = "aborted"
                      /\ error' = Some(<<"KeyError", "reactions[parent]",
                                         FissionQMT(reactions[parent])>>)
                      /\ UNCHANGED <<chain, missing_fpy>>
            ELSE /\ missing_fpy' = Append(missing_fpy, parent)
                 /\ pc' = "yields"
                 /\ UNCHANGED <<chain, error>>
       ELSE /\ pc' = "yields"
            /\ UNCHANGED <<chain, missing_fpy, error>>
    /\ UNCHANGED <<CASL_CHAIN, UNMODIFIED_DECAY_BR, neutron_files, decay_files,
                   fpy_files, reactions, decay_data, fpy_data,
                   missing_daughter, missing_rx_product, printed, order, idx>>
    /\ UNCHANGED cendlVars

----------------------------------------------------------------------------
(* Fission yields of one nuclide (lines 174-214)                            *)
(* A yield table is [keys |-> products in iteration order,                 *)
(*                   value |-> product -> nominal value].                  *)
(* The loops carry [yields, printed, error]; once error is set the         *)
(* remaining iterations do not run.                                        *)

\* yields[product] += v on a defaultdict(float)
AddYield(yields, product, v) ==
    IF product \in DOMAIN yields
    THEN [yields EXCEPT ![product] = @ + v]
    ELSE (product :> v) @@ yields

\* lines 177-180
YieldEnergies(fpy) ==
    IF fpy.energies # None THEN fpy.energies[1] ELSE <<0>>

\* line 204: the test that guards the use of a sub-product
SubProductFound(name_i, ifpy_i, table_yd, table_yc) ==
    name_i \in DOMAIN table_yd.value

\* lines 203-210: the loop over CASL_CHAIN[product][3], from triple k on
RECURSIVE Weighted(_, _, _, _, _, _, _)
Weighted(k, special, product, name, table_yd, table_yc, acc) ==
    IF k > Len(special) \/ acc.error # None THEN acc
    ELSE LET name_i == special[k][1]
             weight_i == special[k][2]
             ifpy_i == special[k][3]
             next ==
               IF ~SubProductFound(name_i, ifpy_i, table_yd, table_yc)
               THEN [acc EXCEPT !.printed = Append(@,
                       <<"No fission yields found", name_i, name>>)]
               ELSE IF ifpy_i = 1
               THEN [acc EXCEPT !.yields = AddYield(@, product,
                       weight_i * table_yd.value[name_i])]
               ELSE IF ifpy_i = 2
               THEN IF name_i \in DOMAIN table_yc.value
                    THEN [acc EXCEPT !.yields = AddYield(@, product,
                            weight_i * table_yc.value[name_i])]
                    ELSE \* table_yc[name_i] raises KeyError
                         [acc EXCEPT !.error =
                            Some(<<"KeyError", "table_yc", name_i>>)]
               ELSE acc
         IN Weighted(k + 1, special, product, name, table_yd, table_yc, next)

\* lines 185-210: the loop over the products of table_yd, from key k on
RECURSIVE Products(_, _, _, _, _)
Products(k, name, table_yd, table_yc, acc) ==
    IF k > Len(table_yd.keys) \/ acc.error # None THEN acc
    ELSE LET product == table_yd.keys[k]
             ifpy == Casl(product, 2)
             next ==
               IF product \notin DOMAIN decay_data THEN acc
               ELSE IF ifpy = 1
               THEN IF product \notin DOMAIN table_yd.value
                    THEN [acc EXCEPT !.printed = Append(@,
                           <<"No independent fission yields found",
                             product, name>>)]
                    ELSE [acc EXCEPT !.yields =
                           AddYield(@, product, table_yd.value[product])]
               ELSE IF ifpy = 2
               THEN IF product \notin DOMAIN table_yc.value
                    THEN [acc EXCEPT !.printed = Append(@,
                           <<"No cumulative fission yields found",
                             product, name>>)]
                    ELSE [acc EXCEPT !.yields =
                           AddYield(@, product, table_yc.value[product])]
               ELSE IF ifpy = 3
               THEN Weighted(1, Casl(product, 3), product, name,
                             table_yd, table_yc, acc)
               ELSE acc
         IN Products(k + 1, name, table_yd, table_yc, next)

\* lines 182-212: the loop over zip(energies, independent, cumulative)
RECURSIVE Energies(_, _, _, _)
Energies(k, name, fpy, acc) ==
    IF \/ k > Len(YieldEnergies(fpy))
       \/ k > Len(fpy.independent)
       \/ k > Len(fpy.cumulative)
       \/ acc.error # None
    THEN acc
    ELSE LET out == Products(1, name, fpy.independent[k], fpy.cumulative[k],
                             [yields |-> <<>>, printed |-> acc.printed,
                              error |-> None])
         IN Energies(k + 1, name, fpy,
               [yield_data |-> IF out.error = None
                               THEN (YieldEnergies(fpy)[k] :> out.yields)
                                       @@ acc.yield_data
                               ELSE acc.yield_data,
                printed |-> out.printed,
                error |-> out.error])

AssembleYields ==
    /\ pc = "yields"
    /\ IF parent \in DOMAIN fpy_data
       THEN LET out == Energies(1, parent, fpy_data[parent],
                                [yield_data |-> <<>>, printed |-> printed,
                                 error |-> None])
            IN /\ printed' = out.printed
               /\ IF out.error = None
                  THEN /\ chain' = [chain EXCEPT
                             !.nuclides[idx + 1].yield_data =
                                 Some(out.yield_data)]
                       /\ pc' = "decay"
                       /\ idx' = idx + 1
                       /\ UNCHANGED error
                  ELSE /\ pc' = "aborted"
                       /\ error' = out.error
                       /\ UNCHANGED <<chain, idx>>
       ELSE /\ pc' = "decay"
            /\ idx' = idx + 1
            /\ UNCHANGED <<chain, printed, error>>
    /\ UNCHANGED <<CASL_CHAIN, UNMODIFIED_DECAY_BR, neutron_files, decay_files,
                   fpy_files, reactions, decay_data, fpy_data,
                   missing_daughter, missing_rx_product, missing_fpy, order>>
    /\ UNCHANGED cendlVars

----------------------------------------------------------------------------
(* Warnings and export (lines 216-235)                                      *)

\* lines 217-233: one warning block: title, one line per entry, blank line
WarningBlock(title, lines) ==
    IF lines # <<>> THEN <<<<title>>>> \o lines \o <<<<"">>>> ELSE <<>>

ExportChain ==
    /\ pc = "decay"
    /\ idx = Len(order)
    /\ printed' = printed
         \o WarningBlock("The following decay modes have daughters with no decay data:",
              [k \in 1..Len(missing_daughter) |->
                 <<"  {} -> {} ({})", missing_daughter[k][1],
                   missing_daughter[k][2].daughter,
                   Join(missing_daughter[k][2].modes)>>])
         \o WarningBlock("The following reaction products have no decay data:",
              [k \in 1..Len(missing_rx_product) |->
                 <<"{} {} -> {}", missing_rx_product[k][1],
                   missing_rx_product[k][2], missing_rx_product[k][3]>>])
         \o WarningBlock("The following fissionable nuclides have no fission product yields:",
              [k \in 1..Len(missing_fpy) |-> <<"  {}", missing_fpy[k]>>])
    /\ pc' = "exported"
    /\ UNCHANGED <<CASL_CHAIN, UNMODIFIED_DECAY_BR, neutron_files, decay_files,
                   fpy_files, reactions, decay_data, fpy_data, chain,
                   missing_daughter, missing_rx_product, missing_fpy,
                   order, idx, error>>
    /\ UNCHANGED cendlVars

----------------------------------------------------------------------------
(* Inputs of the chain script                                              *)
(* The allow-list has four nuclides; U234, Th231, Te135 and Xe135_m1 have  *)
(* no entry.  One nuclide at a time carries the varied data (I135 its      *)
(* decay modes, U235 its reaction table, U235 its yield tables and Xe135   *)
(* its yield treatment), the others carry the base data below.             *)

MaxModes == 2      \* decay modes of the varied decay object
MaxMTs == 2        \* sections of the varied evaluation
MaxSpecial == 2    \* (name, weight, code) triples of a treatment-3 entry

Xe135_m1 == <<"Xe", 135, 1>>

Keys == {I135, Xe135, U235, U236}

CaslEntry(flag, ifpy, special) == <<flag, 0, ifpy, special>>

BaseCasl ==
    [n \in Keys |-> IF n = Xe135 THEN CaslEntry(FALSE, 2, <<>>)
                    ELSE CaslEntry(FALSE, 1, <<>>)]

Mode(modes, daughter, br) ==
    [modes |-> modes, daughter |-> daughter, branching_ratio |-> br]

DecayObj(name, stable, half_life, modes) ==
    [name |-> name, atomic_number |-> zam(name)[1], mass_number |-> name[2],
     stable |-> stable, half_life |-> half_life,
     average_energies |-> <<2, 3>>, modes |-> modes]

BaseDecay(name) ==
    IF name = I135 THEN DecayObj(I135, FALSE, 7, <<Mode(<<"beta-">>, Xe135, One)>>)
    ELSE IF name = Xe135
    THEN DecayObj(Xe135, FALSE, 9, <<Mode(<<"beta-">>, <<"Cs", 135, 0>>, One)>>)
    ELSE IF name = U235
    THEN DecayObj(U235, FALSE, 7, <<Mode(<<"alpha">>, Th231, One),
                                    Mode(<<"sf">>, Xe135, 0)>>)
    ELSE DecayObj(name, TRUE, 0, <<>>)

Section(mf, mt, q) == [mf |-> mf, mt |-> mt, q |-> q]

Evaluation(name, sections) == [name |-> name, reaction_list |-> sections]

BaseEvaluation(name) ==
    IF name = U235
    THEN Evaluation(U235, {Section(1, 451, 0), Section(3, 18, 193),
                           Section(3, 102, 6), Section(3, 16, -5)})
    ELSE Evaluation(name, {Section(1, 451, 0), Section(3, 102, 5)})

\* nominal values of the independent and cumulative yields
IndependentValue == (Te135 :> 1) @@ (I135 :> 2) @@ (Xe135 :> 4)
CumulativeValue == (Te135 :> 8) @@ (I135 :> 16) @@ (Xe135 :> 32)
YieldProducts == <<Te135, I135, Xe135>>

YieldTable(products, values, scale) ==
    [keys |-> SelectSeq(YieldProducts, LAMBDA q : q \in products),
     value |-> [q \in products |-> scale * values[q]]]

Fpy(name, energies, independent, cumulative) ==
    [name |-> name, energies |-> energies,
     independent |-> independent, cumulative |-> cumulative]

BaseFpy(name) ==
    Fpy(name, None,
        <<YieldTable({I135, Xe135}, IndependentValue, 1)>>,
        <<YieldTable({I135, Xe135}, CumulativeValue, 1)>>)

\* the inputs as main() finds them: the two tables of casl_chain and the
\* parsed files of the three sub-libraries
Inputs(casl, unmodified, nf, df, ff) ==
    /\ CASL_CHAIN = casl
    /\ UNMODIFIED_DECAY_BR = unmodified
    /\ neutron_files = nf
    /\ decay_files = df
    /\ fpy_files = ff

\* ---- varied decay data of I135 ----
BranchingRatios == {39, 40, 60}

ModeSet ==
    {Mode(<<"beta-">>, Xe135, b) : b \in BranchingRatios}
        \cup {Mode(<<"beta-", "n">>, Xe135_m1, b) : b \in BranchingRatios}
        \cup {Mode(<<"beta-", "n">>, Xe135, 60), Mode(<<"beta-">>, Xe135_m1, 60)}

DecayInputs ==
    \E flag \in BOOLEAN, unmodified \in {{}, {I135}},
       stable \in BOOLEAN, half_life \in {0, 7},
       modes \in SeqsUpTo(ModeSet, MaxModes),
       others \in {{}, {Xe135}} :
        Inputs([BaseCasl EXCEPT ![I135] = CaslEntry(flag, 1, <<>>)],
               unmodified,
               {BaseEvaluation(U235), BaseEvaluation(U234)},
               {DecayObj(I135, stable, half_life, modes),
                BaseDecay(U235), BaseDecay(U234)}
                   \cup {BaseDecay(n) : n \in others},
               {BaseFpy(U235)})

\* ---- varied reaction table of U235 ----
ReactionMTs == {16, 18, 19, 102, 103, 600, 875}

SectionSet ==
    {Section(3, mt, q) : mt \in ReactionMTs, q \in {4, 9}}
        \cup {Section(4, mt, 0) : mt \in ReactionMTs}

SectionSets ==
    {Range(secs) : secs \in
        {t \in SeqsUpTo(SectionSet, MaxMTs) :
            \A j, k \in 1..Len(t) : j < k => t[j].mt < t[k].mt}}

ReactionInputs ==
    \E nf \in {{BaseEvaluation(U236)}}
                 \cup {{Evaluation(U235, secs), BaseEvaluation(U236)} :
                          secs \in SectionSets},
       others \in {{}, {U236}},
       ff \in {{}, {BaseFpy(U235)}} :
        Inputs(BaseCasl, {}, nf,
               {BaseDecay(U235), BaseDecay(U234), BaseDecay(I135)}
                   \cup {BaseDecay(n) : n \in others},
               ff)

\* ---- varied yield tables of U235 and yield treatment of Xe135 ----
ProductSets == SUBSET Range(YieldProducts)

OneEnergyFpys ==
    {Fpy(U235, None,
         <<YieldTable(yd, IndependentValue, 1)>>,
         <<YieldTable(yc, CumulativeValue, 1)>>) :
        yd \in ProductSets, yc \in ProductSets}

TwoEnergyFpys ==
    {Fpy(U235, energies,
         <<YieldTable({I135, Xe135}, IndependentValue, 1),
           YieldTable(yd, IndependentValue, 10)>>,
         <<YieldTable(yc1, CumulativeValue, 1),
           YieldTable({I135, Xe135}, CumulativeValue, 10)>>) :
        energies \in {None, Some(<<1, 2>>)},
        yd \in {{Xe135}, {Te135, I135, Xe135}},
        yc1 \in {{}, {I135, Xe135}}}

Triples == {<<Te135, 3, 1>>, <<Te135, 3, 2>>, <<I135, 1, 2>>}

Treatments ==
    {<<1, <<>>>>, <<2, <<>>>>}
        \cup {<<3, special>> : special \in SeqsUpTo(Triples, MaxSpecial)}

YieldInputs ==
    \E icode \in {1, 2}, treatment \in Treatments,
       others \in {{}, {I135}},
       fpy \in OneEnergyFpys \cup TwoEnergyFpys :
        Inputs([BaseCasl EXCEPT
                   ![I135] = CaslEntry(FALSE, icode, <<>>),
                   ![Xe135] = CaslEntry(FALSE, treatment[1], treatment[2])],
               {},
               {BaseEvaluation(U235)},
               {BaseDecay(U235), BaseDecay(Xe135)}
                   \cup {BaseDecay(n) : n \in others},
               {fpy, BaseFpy(U234)})

\* the state of generate_cendl.py while the chain script is examined
CendlIdle ==
    /\ args = None /\ archive = None /\ endf_dir = <<>>
    /\ todo = <<>> /\ destination = None /\ library = <<>>
    /\ manifests = <<>> /\ first_inputs = {} /\ cpc = "idle" /\ cerror = None

Init ==
    /\ (DecayInputs \/ ReactionInputs \/ YieldInputs)
    /\ reactions = <<>>
    /\ decay_data = <<>>
    /\ fpy_data = <<>>
    /\ chain = [nuclides |-> <<>>, nuclide_dict |-> <<>>, reactions |-> <<>>]
    /\ missing_daughter = <<>>
    /\ missing_rx_product = <<>>
    /\ missing_fpy = <<>>
    /\ printed = <<>>
    /\ order = <<>>
    /\ idx = 0
    /\ pc = "read"
    /\ error = None
    /\ CendlIdle

Next ==
    \/ ReadLibraries
    \/ AssembleDecay
    \/ AssembleReactions
    \/ AssembleFission
    \/ AssembleYields
    \/ ExportChain

Spec == Init /\ [][Next]_vars

----------------------------------------------------------------------------
(* Properties of chain assembly                                            *)

Appended == 1..Len(chain.nuclides)

NameOf(k) == chain.nuclides[k].name

\* the loop has passed the reaction block of nuclide k
RxDone(k) ==
    k \in Appended /\ (k <= idx \/ pc \in {"fission", "yields", "aborted"})

\* the loop has passed the fission block of nuclide k
FissionDone(k) ==
    /\ k \in Appended
    /\ \/ k <= idx
       \/ pc = "yields"
       \/ pc = "aborted" /\ error[1][2] = "table_yc"

\* the loop has entered the yield block of nuclide k
YieldAttempted(k) ==
    /\ k \in Appended
    /\ \/ k <= idx
       \/ pc = "aborted" /\ error[1][2] = "table_yc"

\* indices of the entries of a sequence that satisfy a test
Where(seq, Test(_)) == {j \in 1..Len(seq) : Test(seq[j])}

\* line 106 read on the input: the nuclide's decay data are used
IsDecaying(name) ==
    /\ CASL_CHAIN[name][1] = FALSE
    /\ decay_data[name].stable = FALSE
    /\ decay_data[name].half_life # 0

\* input decay modes of a nuclide whose daughter has / has no decay data
WithDaughter(name) ==
    SelectSeq(decay_data[name].modes, LAMBDA m : m.daughter \in DOMAIN decay_data)

WithoutDaughter(name) ==
    SelectSeq(decay_data[name].modes, LAMBDA m : m.daughter \notin DOMAIN decay_data)

Ratios(modes) == [j \in 1..Len(modes) |-> modes[j].branching_ratio]

\* C1 as stated: after chain assembly every nuclide appended to
\* chain.nuclides whose name is not in UNMODIFIED_DECAY_BR has recorded
\* decay modes whose branching ratios sum to 1.0, whatever the decay data
\* (stable, zero half-life, excluded, all daughters missing).
C1_EveryNuclideSumsToOne ==
    \A k \in Appended :
        NameOf(k) \notin UNMODIFIED_DECAY_BR
            => SumSeq(Ratios(chain.nuclides[k].decay_modes)) = One

\* C1 amended: every appended nuclide outside UNMODIFIED_DECAY_BR that has
\* at least one recorded decay mode has branching ratios that sum to 1.0;
\* a nuclide that is not decaying, or whose daughters are all missing,
\* records no decay mode at all (its ratios sum to 0).
C1_RecordedModesSumToOne ==
    \A k \in Appended :
        LET name == NameOf(k)
            decay_modes == chain.nuclides[k].decay_modes
        IN /\ (name \notin UNMODIFIED_DECAY_BR /\ decay_modes # <<>>)
                 => SumSeq(Ratios(decay_modes)) = One
           /\ (~IsDecaying(name) \/ WithDaughter(name) = <<>>)
                 => decay_modes = <<>>

\* C1 witness: assembly finished with a nuclide outside the exclusion list
\* whose two recorded input ratios did not sum to 1.0
C1_Witness ==
    /\ pc = "exported"
    /\ \E k \in Appended :
          /\ NameOf(k) \notin UNMODIFIED_DECAY_BR
          /\ IsDecaying(NameOf(k))
          /\ Len(WithDaughter(NameOf(k))) = 2
          /\ SumSeq(Ratios(WithDaughter(NameOf(k)))) # One

\* C7: renormalization touches only the last recorded mode.  For a decaying
\* nuclide the recorded modes are the input modes with a known daughter, in
\* order, with their types and targets; all ratios but the last are as
\* read; outside UNMODIFIED_DECAY_BR the last ratio is 1.0 minus the sum of
\* the preceding ones, inside it every ratio is as read.
C7_OnlyLastModeAdjusted ==
    \A k \in Appended :
        LET name == NameOf(k)
            decay_modes == chain.nuclides[k].decay_modes
            read == WithDaughter(name)
            n == Len(decay_modes)
        IN IsDecaying(name) =>
             /\ n = Len(read)
             /\ \A j \in 1..n :
                   /\ decay_modes[j].type = Join(read[j].modes)
                   /\ decay_modes[j].target = read[j].daughter
             /\ \A j \in 1..(n - 1) :
                   decay_modes[j].branching_ratio = read[j].branching_ratio
             /\ (n > 0 /\ name \notin UNMODIFIED_DECAY_BR) =>
                   decay_modes[n].branching_ratio =
                       One - SumSeq(Ratios(SubSeq(read, 1, n - 1)))
             /\ (n > 0 /\ name \in UNMODIFIED_DECAY_BR) =>
                   decay_modes[n].branching_ratio = read[n].branching_ratio

\* C7 witness: input ratios 0.6 and 0.39 were recorded as 0.6 and 0.4
C7_Witness ==
    \E k \in Appended :
        /\ NameOf(k) \notin UNMODIFIED_DECAY_BR
        /\ IsDecaying(NameOf(k))
        /\ Ratios(WithDaughter(NameOf(k))) = <<60, 39>>
        /\ Ratios(chain.nuclides[k].decay_modes) = <<60, 40>>

\* C8: for a nuclide whose decay modes are processed every input mode is
\* either recorded (iff its daughter is a key of decay_data) or appended to
\* missing_daughter (iff it is not), both in input order, and no recorded
\* mode has a target outside decay_data; a skipped nuclide records no mode
\* and adds nothing to missing_daughter.
C8_ModesRecordedOrMissing ==
    \A k \in Appended :
        LET name == NameOf(k)
            decay_modes == chain.nuclides[k].decay_modes
            reported == SelectSeq(missing_daughter, LAMBDA e : e[1] = name)
        IN /\ \A j \in 1..Len(decay_modes) :
                 decay_modes[j].target \in DOMAIN decay_data
           /\ IsDecaying(name) =>
                 /\ [j \in 1..Len(decay_modes) |-> decay_modes[j].target]
                       = [j \in 1..Len(WithDaughter(name)) |->
                             WithDaughter(name)[j].daughter]
                 /\ [j \in 1..Len(reported) |-> reported[j][2]]
                       = WithoutDaughter(name)
                 /\ Len(decay_modes) + Len(reported)
                       = Len(decay_data[name].modes)
           /\ ~IsDecaying(name) =>
                 decay_modes = <<>> /\ reported = <<>>

\* C8 witness: a processed nuclide with one mode recorded and one reported
C8_Witness ==
    \E k \in Appended :
        /\ IsDecaying(NameOf(k))
        /\ Len(chain.nuclides[k].decay_modes) = 1
        /\ Len(SelectSeq(missing_daughter, LAMBDA e : e[1] = NameOf(k))) = 1

\* the registry entries whose MT codes meet the reaction table of a name
Recorded(name) ==
    {r \in 1..Len(_REACTIONS) :
        \E mt \in _REACTIONS[r][2] : mt \in DOMAIN reactions[name]}

\* the product name the mass/charge delta of registry entry r gives
Product(name, r) ==
    <<ATOMIC_SYMBOL[decay_data[name].atomic_number + _REACTIONS[r][3][2]],
      decay_data[name].mass_number + _REACTIONS[r][3][1], 0>>

\* C2 as stated: chain assembly never aborts on a data gap; no exception
\* ends main() before chain.export_to_xml.
C2_NeverAborts == pc # "aborted"

C4_MissingProductSentinel ==
    \A k \in Appended :
        LET name == NameOf(k)
            rxs == chain.nuclides[k].reactions
        IN (RxDone(k) /\ name \in DOMAIN reactions) =>
             \A r \in Recorded(name) :
                LET rx == _REACTIONS[r][1]
                    daughter == Product(name, r)
                    entries == Where(missing_rx_product,
                                 LAMBDA e : e[1] = name /\ e[2] = rx)
                    tuples == Where(rxs, LAMBDA t : t.type = rx)
                IN /\ Cardinality(tuples) = 1
                   /\ IF daughter \in DOMAIN decay_data
                      THEN /\ \A j \in tuples : rxs[j].target = daughter
                           /\ entries = {}
                      ELSE /\ \A j \in tuples : rxs[j].target = NOTHING
                           /\ Cardinality(entries) = 1
                           /\ \A j \in entries :
                                 missing_rx_product[j] = <<name, rx, daughter>>

\* C4 witness: a nuclide with one recorded reaction whose daughter has
\* decay data and one whose daughter has none
C4_Witness ==
    \E k \in Appended :
        /\ RxDone(k)
        /\ NameOf(k) \in DOMAIN reactions
        /\ \E r1, r2 \in Recorded(NameOf(k)) :
              /\ Product(NameOf(k), r1) \in DOMAIN decay_data
              /\ Product(NameOf(k), r2) \notin DOMAIN decay_data

\* C5: a nuclide with no reaction MT codes (no reaction table, or an empty
\* one) has an empty reactions list and no entry in missing_rx_product or
\* missing_fpy.
C5_NoMTsNoReactions ==
    \A k \in Appended :
        LET name == NameOf(k)
        IN (name \notin DOMAIN reactions \/ DOMAIN reactions[name] = {}) =>
             /\ chain.nuclides[k].reactions = <<>>
             /\ Where(missing_rx_product, LAMBDA e : e[1] = name) = {}
             /\ Where(missing_fpy, LAMBDA e : e = name) = {}

\* C5 witness: the loop finished a nuclide that has an empty reaction table
\* and no yield data, and one that has no reaction table
C5_Witness ==
    /\ \E k \in Appended :
          /\ k <= idx
          /\ NameOf(k) \in DOMAIN reactions
          /\ DOMAIN reactions[NameOf(k)] = {}
          /\ NameOf(k) \notin DOMAIN fpy_data
    /\ \E k \in Appended : k <= idx /\ NameOf(k) \notin DOMAIN reactions

\* C9: the Q value of a recorded transmutation reaction is the Q value of
\* the numerically smallest MT code of the registry entry that is present
\* in the nuclide's table (never the default 0.0).
C9_SmallestPresentMT ==
    \A k \in Appended :
        LET name == NameOf(k)
            rxs == chain.nuclides[k].reactions
        IN (RxDone(k) /\ name \in DOMAIN reactions) =>
             \A r \in Recorded(name) :
                LET present == _REACTIONS[r][2] \cap DOMAIN reactions[name]
                    smallest == CHOOSE mt \in present :
                                   \A other \in present : mt <= other
                IN \A j \in Where(rxs, LAMBDA t : t.type = _REACTIONS[r][1]) :
                      rxs[j].Q = reactions[name][smallest]

\* C9 witness: a recorded reaction with two MT codes of its registry entry
\* present, carrying different Q values
C9_Witness ==
    \E k \in Appended :
        /\ RxDone(k)
        /\ NameOf(k) \in DOMAIN reactions
        /\ \E r \in Recorded(NameOf(k)) :
              \E m1, m2 \in _REACTIONS[r][2] \cap DOMAIN reactions[NameOf(k)] :
                 /\ m1 < m2
                 /\ reactions[NameOf(k)][m1] # reactions[NameOf(k)][m2]
                 /\ \E j \in 1..Len(chain.nuclides[k].reactions) :
                       chain.nuclides[k].reactions[j].type = _REACTIONS[r][1]

\* what one (sub-product, weight, code) triple contributes by its code
Contribution(triple, table_yd, table_yc) ==
    LET table == IF triple[3] = 1 THEN table_yd ELSE table_yc
    IN IF triple[1] \in DOMAIN table.value
       THEN triple[2] * table.value[triple[1]]
       ELSE 0

\* the yield of a product by its treatment code, absent entries giving 0
TreatedYield(product, table_yd, table_yc) ==
    LET code == CASL_CHAIN[product][3]
        special == CASL_CHAIN[product][4]
    IN IF code = 1 THEN table_yd.value[product]
       ELSE IF code = 2
       THEN IF product \in DOMAIN table_yc.value
            THEN table_yc.value[product] ELSE 0
       ELSE SumSeq([j \in 1..Len(special) |->
                      Contribution(special[j], table_yd, table_yc)])

\* the yield-table entries a product's treatment refers to that are absent
AbsentEntries(product, table_yd, table_yc) ==
    LET code == CASL_CHAIN[product][3]
        special == CASL_CHAIN[product][4]
    IN IF code = 2
       THEN IF product \in DOMAIN table_yc.value THEN {} ELSE {product}
       ELSE IF code = 3
       THEN {special[j][1] : j \in
               {i \in 1..Len(special) :
                   special[i][1] \notin
                      DOMAIN (IF special[i][3] = 1 THEN table_yd
                              ELSE table_yc).value}}
       ELSE {}

\* C10 as stated: for a nuclide with fission-yield data the yield block
\* records, at each energy, for each product of the independent table that
\* is a key of decay_data, the yield its treatment code prescribes
\* (1: independent, 2: cumulative, 3: weighted sum of the sub-products'
\* independent or cumulative values); every referenced entry that is
\* absent prints a warning and contributes nothing; no other product
\* receives a yield.
C10_YieldsByTreatment ==
    \A k \in Appended :
        LET name == NameOf(k)
            fpy == fpy_data[name]
            energies == IF fpy.energies = None THEN <<0>> ELSE fpy.energies[1]
            yield_data == chain.nuclides[k].yield_data
        IN (YieldAttempted(k) /\ name \in DOMAIN fpy_data) =>
             /\ yield_data # None
             /\ \A e \in 1..Len(energies) :
                  (e <= Len(fpy.independent) /\ e <= Len(fpy.cumulative)) =>
                    LET yields == yield_data[1][energies[e]]
                        table_yd == fpy.independent[e]
                        table_yc == fpy.cumulative[e]
                    IN /\ DOMAIN yields \subseteq
                             Range(table_yd.keys) \cap DOMAIN decay_data
                       /\ \A product \in
                             Range(table_yd.keys) \cap DOMAIN decay_data :
                             /\ (IF product \in DOMAIN yields
                                 THEN yields[product] ELSE 0)
                                  = TreatedYield(product, table_yd, table_yc)
                             /\ \A absent \in
                                   AbsentEntries(product, table_yd, table_yc) :
                                   \E j \in 1..Len(printed) :
                                      /\ Len(printed[j]) = 3
                                      /\ printed[j][2] = absent
                                      /\ printed[j][3] = name

----------------------------------------------------------------------------
(* generate_cendl.py                                                       *)
(* A file of cendl-3.1-endf is [name, nlines, lines]: the nuclide its head *)
(* record identifies, the number of '\r\n'-separated lines, and the bytes  *)
(* of lines 203 and 205 (the two lines the script rewrites).  A file name  *)
(* is a string; CodePoints gives its characters.                           *)

TI_FILE == "22-Ti-047.C31"
B_FILE == "5-B-010.C31"
H_FILE == "1-H-001.C31"
README == "readme.txt"

CodePoints ==
    (TI_FILE :> <<50, 50, 45, 84, 105, 45, 48, 52, 55, 46, 67, 51, 49>>) @@
    (B_FILE :> <<53, 45, 66, 45, 48, 49, 48, 46, 67, 51, 49>>) @@
    (H_FILE :> <<49, 45, 72, 45, 48, 48, 49, 46, 67, 51, 49>>) @@
    (README :> <<114, 101, 97, 100, 109, 101, 46, 116, 120, 116>>)

\* the leading characters ' 8) YUAN' and '21)   Day' of the corrected lines
TI_LINE == <<32, 56, 41, 32, 89, 85, 65, 78>>
B_LINE == <<50, 49, 41, 32, 32, 32, 68, 97, 121>>

EndfFile(name, nlines, l203, l205) ==
    [name |-> name, nlines |-> nlines,
     lines |-> [n \in {203, 205} \cap 0..(nlines - 1) |->
                  IF n = 203 THEN l203 ELSE l205]]

\* the members of CENDL-31.zip; 233 and 200 are non-ASCII bytes
REMOTE_ARCHIVE ==
    (TI_FILE :> EndfFile("Ti47", 300, <<32, 55, 41>>, <<32, 56, 41, 233, 85>>)) @@
    (B_FILE :> EndfFile("B10", 300, <<50, 49, 41, 200, 68>>, <<50, 50, 41>>)) @@
    (H_FILE :> EndfFile("H1", 250, <<32, 49, 41>>, <<32, 50, 41>>)) @@
    (README :> EndfFile("", 1, <<>>, <<>>))

\* a copy of the titanium file with '\n' line ends: one '\r\n'-separated line
TI_UNIX == EndfFile("Ti47", 1, <<>>, <<>>)

\* os.path.join(args.destination, data.name + '.h5')
H5File(dest, name) == <<dest, name \o ".h5">>

\* str comparison of two file names
RECURSIVE CodeLess(_, _)
CodeLess(a, b) ==
    IF b = <<>> THEN FALSE
    ELSE IF a = <<>> THEN TRUE
    ELSE IF a[1] # b[1] THEN a[1] < b[1]
    ELSE CodeLess(Tail(a), Tail(b))

\* glob pattern '*.C31'
MatchesC31(f) ==
    LET c == CodePoints[f]
    IN Len(c) >= 4 /\ SubSeq(c, Len(c) - 3, Len(c)) = <<46, 67, 51, 49>>

\* the orders in which glob.glob may list a set of files
Listings(S) ==
    {l \in [1..Cardinality(S) -> S] :
        \A j, k \in 1..Cardinality(S) : j # k => l[j] # l[k]}

\* variant of Sorted that keeps the order of the listing
Unsorted(files) == files

\* sorted(neutron_files)
RECURSIVE SortedSet(_)
SortedSet(S) ==
    IF S = {} THEN <<>>
    ELSE LET first == CHOOSE f \in S :
                \A g \in S \ {f} : CodeLess(CodePoints[f], CodePoints[g])
         IN <<first>> \o SortedSet(S \ {first})

Sorted(files) == SortedSet(Range(files))

\* bytes.decode('utf-8', 'ignore') of a line: the non-ASCII bytes are dropped
Decode(line) == SelectSeq(line, LAMBDA byte : byte < 128)

\* lines 110-117: is the file one of the two that are rewritten?
NeedsFix(f) == f \in {TI_FILE, B_FILE}

\* the line index the fix assigns to
FixIndex(f) == IF f = TI_FILE THEN 205 ELSE 203

\* lines 112-117: the file as rewritten by the fix
Fixed(f, content) ==
    [content EXCEPT !.lines =
        [n \in DOMAIN content.lines |->
            IF n = FixIndex(f)
            THEN (IF f = TI_FILE THEN TI_LINE ELSE B_LINE)
            ELSE Decode(content.lines[n])]]

\* lines 79-82: download the archive
Download ==
    /\ cpc = "download"
    /\ archive' = IF args.download THEN Some(REMOTE_ARCHIVE) ELSE archive
    /\ cpc' = "extract"
    /\ UNCHANGED <<args, endf_dir, todo, destination, library, manifests,
                   first_inputs, cerror>>
    /\ UNCHANGED chainVars

\* lines 86-92: extract the archive into cendl-3.1-endf
Extract ==
    /\ cpc = "extract"
    /\ IF ~args.extract
       THEN cpc' = "list" /\ UNCHANGED <<endf_dir, cerror>>
       ELSE IF archive = None
       THEN /\ cpc' = "aborted"
            /\ cerror' = Some("FileNotFoundError")
            /\ UNCHANGED endf_dir
       ELSE /\ endf_dir' = archive[1] @@ endf_dir
            /\ cpc' = "list"
            /\ UNCHANGED cerror
    /\ UNCHANGED <<args, archive, todo, destination, library, manifests,
                   first_inputs>>
    /\ UNCHANGED chainVars

\* lines 99-107: list the files, create the destination and the library
ListFiles ==
    /\ cpc = "list"
    /\ \E listing \in Listings({f \in DOMAIN endf_dir : MatchesC31(f)}) :
          /\ todo' = Sorted(listing)
          /\ first_inputs' = IF manifests = <<>> THEN Range(listing)
                             ELSE first_inputs
    /\ destination' = IF destination = None THEN Some({}) ELSE destination
    /\ library' = <<>>
    /\ cpc' = "convert"
    /\ UNCHANGED <<args, archive, endf_dir, manifests, cerror>>
    /\ UNCHANGED chainVars

\* lines 107-128: one iteration of the loop over sorted(neutron_files)
Convert ==
    /\ cpc = "convert"
    /\ todo # <<>>
    /\ LET filename == Head(todo)
           content == endf_dir[filename]
       IN IF NeedsFix(filename) /\ content.nlines <= FixIndex(filename)
          THEN \* text[205] = ... / text[203] = ... raises IndexError
               /\ cpc' = "aborted"
               /\ cerror' = Some("IndexError")
               /\ UNCHANGED <<endf_dir, todo, destination, library>>
          ELSE LET written == IF NeedsFix(filename)
                              THEN Fixed(filename, content) ELSE content
                   h5_file == H5File(args.destination, written.name)
               IN /\ endf_dir' = [endf_dir EXCEPT ![filename] = written]
                  /\ destination' = Some(destination[1] \cup {h5_file})
                  /\ library' = Append(library, h5_file)
                  /\ todo' = Tail(todo)
                  /\ UNCHANGED <<cpc, cerror>>
    /\ UNCHANGED <<args, archive, manifests, first_inputs>>
    /\ UNCHANGED chainVars

\* lines 130-132: write cross_sections.xml; the script is then run again
ExportLibrary ==
    /\ cpc = "convert"
    /\ todo = <<>>
    /\ manifests' = Append(manifests, library)
    /\ cpc' = IF manifests = <<>> THEN "download" ELSE "done"
    /\ UNCHANGED <<args, archive, endf_dir, todo, destination, library,
                   first_inputs, cerror>>
    /\ UNCHANGED chainVars

\* the directories the first run may find in place of cendl-3.1-endf
InitialDirs ==
    {[f \in S |-> REMOTE_ARCHIVE[f]] : S \in SUBSET DOMAIN REMOTE_ARCHIVE}
        \cup {(TI_FILE :> TI_UNIX) @@ [f \in S |-> REMOTE_ARCHIVE[f]] :
                 S \in SUBSET {B_FILE, H_FILE}}

\* the state of generate_endf71_chain_casl.py while the conversion script
\* is examined
ChainIdle ==
    /\ CASL_CHAIN = <<>> /\ UNMODIFIED_DECAY_BR = {} /\ neutron_files = {}
    /\ decay_files = {} /\ fpy_files = {} /\ reactions = <<>>
    /\ decay_data = <<>> /\ fpy_data = <<>>
    /\ chain = [nuclides |-> <<>>, nuclide_dict |-> <<>>, reactions |-> <<>>]
    /\ missing_daughter = <<>> /\ missing_rx_product = <<>>
    /\ missing_fpy = <<>> /\ printed = <<>> /\ order = <<>> /\ idx = 0
    /\ pc = "idle" /\ error = None

InitCendl ==
    /\ args \in [download : BOOLEAN, extract : BOOLEAN,
                 destination : {"cendl-3.1-hdf5"},
                 libver : {"earliest", "latest"}]
    /\ archive \in {None, Some(REMOTE_ARCHIVE)}
    /\ endf_dir \in InitialDirs
    /\ destination \in {None, Some({})}
    /\ todo = <<>>
    /\ library = <<>>
    /\ manifests = <<>>
    /\ first_inputs = {}
    /\ cpc = "download"
    /\ cerror = None
    /\ ChainIdle

NextCendl ==
    \/ Download
    \/ Extract
    \/ ListFiles
    \/ Convert
    \/ ExportLibrary

SpecCendl == InitCendl /\ [][NextCendl]_vars

\* the manifest the sorted order of a set of input files gives: entry k is
\* the HDF5 file of the input with exactly k - 1 smaller names in the set
ManifestOf(S) ==
    [k \in 1..Cardinality(S) |->
        LET f == CHOOSE g \in S :
                    Cardinality({h \in S :
                        CodeLess(CodePoints[h], CodePoints[g])}) = k - 1
        IN <<args.destination, endf_dir[f].name \o ".h5">>]

\* C6: the files registered by a run are a function of the set of input
\* files only (their sorted order, whatever order glob listed them in), and
\* a second run, started from what the first left on disk, writes the same
\* manifest as the first.
C6_SameManifest ==
    /\ \A run \in 1..Len(manifests) : manifests[run] = ManifestOf(first_inputs)
    /\ Len(manifests) = 2 => manifests[1] = manifests[2]

\* C6 witness: two runs finished over all three input files, the two
\* rewritten files among them
C6_Witness ==
    /\ Len(manifests) = 2
    /\ first_inputs = {TI_FILE, B_FILE, H_FILE}
    /\ endf_dir[TI_FILE].lines[205] = TI_LINE
    /\ endf_dir[B_FILE].lines[203] = B_LINE

====
